---- MODULE Spec2Model ----
(***************************************************************************)
(* A model of src/common/ItemRegistry.js: the registry of Fly-Pie item     *)
(* types.  The module-level optional import of Shell and InputManipulator, *)
(* the ItemTypes table, the ten createItem factories and the activate()    *)
(* closures of the leaves they produce.                                    *)
(*                                                                         *)
(* A menu item is a record: a leaf [name, icon, activate] or a container   *)
(* [name, icon, items].  The activate field of a leaf is the closure: the  *)
(* item type whose code it runs (fn) and the object it captured.           *)
(* A host call that may return null returns an option: <<>> or <<v>>.      *)
(***************************************************************************)
EXTENDS Integers, Sequences, FiniteSets, TLC

VARIABLES
  loaded,            \* the module body (lines 11-403) has been evaluated
  Shell,             \* line 22: "undefined" or "available"
  InputManipulator,  \* line 23: "undefined" or "available"
  loadRaised,        \* evaluating the module body raised to the importer
  call,              \* the last createItem call: item type, arguments, host state read
  threw,             \* the last createItem call threw instead of returning
  item,              \* the record the last createItem call returned
  act                \* the last activate() call of a leaf of item and its outcome

vars == <<loaded, Shell, InputManipulator, loadRaised, call, threw, item, act>>

(***************************************************************************)
(* Bounds of the model.                                                    *)
(***************************************************************************)
\* the number of nodes of the host's menu tree below its root
MaxNodes == 3
\* the length of a list the host returns (running apps, recent files, ...)
MaxLen == 3
\* the largest maxNum handed to RecentFiles and FrequentlyUsed
MaxNum == 4
\* the number of metadata queries that fail during one Bookmarks.createItem
MaxFails == 2

(***************************************************************************)
(* Small helpers.                                                          *)
(***************************************************************************)
Min(a, b) == IF a < b THEN a ELSE b
Max(a, b) == IF a < b THEN b ELSE a

\* the sequences over S of length at most n
SeqsUpTo(S, n) == UNION { [1..k -> S] : k \in 0..n }

\* the sequences over S of length at most n without repetition
InjSeqsUpTo(S, n) ==
  { s \in SeqsUpTo(S, n) : \A i, j \in 1..Len(s) : s[i] = s[j] => i = j }

RECURSIVE Concat(_)
\* the concatenation of a sequence of sequences
Concat(ss) == IF ss = <<>> THEN <<>> ELSE Head(ss) \o Concat(Tail(ss))

\* Array.prototype.slice(begin, end) on a sequence, for integers begin and end
slice(s, begin, end) ==
  LET n == Len(s)
      b == IF begin < 0 THEN Max(n + begin, 0) ELSE Min(begin, n)
      e == IF end < 0 THEN Max(n + end, 0) ELSE Min(end, n)
  IN  SubSeq(s, b + 1, e)

(***************************************************************************)
(* The arguments a user gives to createItem.                               *)
(***************************************************************************)
UserNames == {"", "My Item"}
UserIcons == {"", "my-icon"}
Hotkeys   == {"<Primary>c"}
Commands  == {"gedit"}
Urls      == {"https://www.gnome.org"}
FilePaths == {"/home/user/notes.txt"}

(***************************************************************************)
(* Lines 22-30: the optional import.  Shell is assigned first, then the    *)
(* InputManipulator is constructed; an exception of either statement ends  *)
(* the try block and is swallowed by the empty catch block.                *)
(***************************************************************************)
OptionalImport(shellOk, imOk) ==
  [ Shell            |-> IF shellOk THEN "available" ELSE "undefined",
    InputManipulator |-> IF shellOk /\ imOk THEN "available" ELSE "undefined",
    raised           |-> FALSE ]

(***************************************************************************)
(* Line 40 and lines 59-403: the static tables.  createItem is given here  *)
(* by its parameter list; the functions themselves follow.                 *)
(***************************************************************************)
SettingsTypes == [NONE |-> 0, HOTKEY |-> 1, COMMAND |-> 2, FILE |-> 3, URL |-> 4, COUNT |-> 5]

\* the table with Favorites listed among the actions: a faulty variant
ItemTypes_favorites_as_action ==
  [ Hotkey |->
      [ name |-> "Press Hotkey", icon |-> "accessories-character-map",
        description |-> "Simulates a key stroke.",
        settingsType |-> SettingsTypes.HOTKEY, settingsList |-> "action-types-list",
        createItem |-> <<"name", "icon", "hotkey">> ],
    Command |->
      [ name |-> "Launch Application", icon |-> "utilities-terminal",
        description |-> "Runs any shell command.",
        settingsType |-> SettingsTypes.COMMAND, settingsList |-> "action-types-list",
        createItem |-> <<"name", "icon", "command">> ],
    Url |->
      [ name |-> "Open URL", icon |-> "applications-internet",
        description |-> "Opens an URL with the default browser.",
        settingsType |-> SettingsTypes.URL, settingsList |-> "action-types-list",
        createItem |-> <<"name", "icon", "url">> ],
    File |->
      [ name |-> "Open File", icon |-> "text-x-generic",
        description |-> "Opens a file with the default applications.",
        settingsType |-> SettingsTypes.FILE, settingsList |-> "action-types-list",
        createItem |-> <<"name", "icon", "file">> ],
    Bookmarks |->
      [ name |-> "Bookmarks", icon |-> "folder",
        description |-> "Shows your commonly used directories.",
        settingsType |-> SettingsTypes.NONE, settingsList |-> "submenu-types-list",
        createItem |-> <<"name", "icon">> ],
    RunningApps |->
      [ name |-> "Running Apps", icon |-> "preferences-system-windows",
        description |-> "Shows the currently running applications.",
        settingsType |-> SettingsTypes.NONE, settingsList |-> "submenu-types-list",
        createItem |-> <<"name", "icon">> ],
    RecentFiles |->
      [ name |-> "Recent Files", icon |-> "document-open-recent",
        description |-> "Shows your recently used files.",
        settingsType |-> SettingsTypes.COUNT, settingsList |-> "submenu-types-list",
        createItem |-> <<"name", "icon", "maxNum">> ],
    FrequentlyUsed |->
      [ name |-> "Frequently Used", icon |-> "emblem-favorite",
        description |-> "Shows your frequently used applications.",
        settingsType |-> SettingsTypes.COUNT, settingsList |-> "submenu-types-list",
        createItem |-> <<"name", "icon", "maxNum">> ],
    Favorites |->
      [ name |-> "Favorites", icon |-> "starred",
        description |-> "Shows your pinned applications.",
        settingsType |-> SettingsTypes.NONE, settingsList |-> "action-types-list",
        createItem |-> <<"name", "icon">> ],
    MainMenu |->
      [ name |-> "Main Menu", icon |-> "applications-system",
        description |-> "Shows all installed applications.\nUsually, this is very cluttered;\nyou should rather setup your own menus!",
        settingsList |-> "submenu-types-list", settingsType |-> SettingsTypes.NONE,
        createItem |-> <<"name", "icon">> ] ]

ItemTypes ==
  [ Hotkey |->
      [ name |-> "Press Hotkey", icon |-> "accessories-character-map",
        description |-> "Simulates a key stroke.",
        settingsType |-> SettingsTypes.HOTKEY, settingsList |-> "action-types-list",
        createItem |-> <<"name", "icon", "hotkey">> ],
    Command |->
      [ name |-> "Launch Application", icon |-> "utilities-terminal",
        description |-> "Runs any shell command.",
        settingsType |-> SettingsTypes.COMMAND, settingsList |-> "action-types-list",
        createItem |-> <<"name", "icon", "command">> ],
    Url |->
      [ name |-> "Open URL", icon |-> "applications-internet",
        description |-> "Opens an URL with the default browser.",
        settingsType |-> SettingsTypes.URL, settingsList |-> "action-types-list",
        createItem |-> <<"name", "icon", "url">> ],
    File |->
      [ name |-> "Open File", icon |-> "text-x-generic",
        description |-> "Opens a file with the default applications.",
        settingsType |-> SettingsTypes.FILE, settingsList |-> "action-types-list",
        createItem |-> <<"name", "icon", "file">> ],
    Bookmarks |->
      [ name |-> "Bookmarks", icon |-> "folder",
        description |-> "Shows your commonly used directories.",
        settingsType |-> SettingsTypes.NONE, settingsList |-> "submenu-types-list",
        createItem |-> <<"name", "icon">> ],
    RunningApps |->
      [ name |-> "Running Apps", icon |-> "preferences-system-windows",
        description |-> "Shows the currently running applications.",
        settingsType |-> SettingsTypes.NONE, settingsList |-> "submenu-types-list",
        createItem |-> <<"name", "icon">> ],
    RecentFiles |->
      [ name |-> "Recent Files", icon |-> "document-open-recent",
        description |-> "Shows your recently used files.",
        settingsType |-> SettingsTypes.COUNT, settingsList |-> "submenu-types-list",
        createItem |-> <<"name", "icon", "maxNum">> ],
    FrequentlyUsed |->
      [ name |-> "Frequently Used", icon |-> "emblem-favorite",
        description |-> "Shows your frequently used applications.",
        settingsType |-> SettingsTypes.COUNT, settingsList |-> "submenu-types-list",
        createItem |-> <<"name", "icon", "maxNum">> ],
    Favorites |->
      [ name |-> "Favorites", icon |-> "starred",
        description |-> "Shows your pinned applications.",
        settingsType |-> SettingsTypes.NONE, settingsList |-> "submenu-types-list",
        createItem |-> <<"name", "icon">> ],
    MainMenu |->
      [ name |-> "Main Menu", icon |-> "applications-system",
        description |-> "Shows all installed applications.\nUsually, this is very cluttered;\nyou should rather setup your own menus!",
        settingsList |-> "submenu-types-list", settingsType |-> SettingsTypes.NONE,
        createItem |-> <<"name", "icon">> ] ]

TypeNames == DOMAIN ItemTypes

\* the six properties of an item type (lines 43-57)
Properties == {"name", "icon", "description", "settingsType", "settingsList", "createItem"}

(***************************************************************************)
(* What a createItem call yields: the record it returns, or an exception.  *)
(***************************************************************************)
Returned(r) == [ok |-> TRUE, value |-> r]
Thrown      == [ok |-> FALSE]

NoItem == [none |-> TRUE]
NoCall == [type |-> "none"]
NoAct  == [none |-> TRUE]

(***************************************************************************)
(* Lines 68-149: the four actions.                                         *)
(***************************************************************************)
Hotkey_createItem(name, icon, hotkey) ==
  Returned([name |-> name, icon |-> icon,
            activate |-> [fn |-> "Hotkey", hotkey |-> hotkey]])

Command_createItem(name, icon, command) ==
  Returned([name |-> name, icon |-> icon,
            activate |-> [fn |-> "Command", command |-> command]])

Url_createItem(name, icon, url) ==
  Returned([name |-> name, icon |-> icon,
            activate |-> [fn |-> "Url", url |-> url]])

File_createItem(name, icon, file) ==
  Returned([name |-> name, icon |-> icon,
            activate |-> [fn |-> "File", file |-> file]])

(***************************************************************************)
(* The host's objects.  An application (Shell.App and its Gio.AppInfo) has *)
(* a name and may have no icon (line 351 tests for it); a window has a     *)
(* title; a recent file has a URI, a display name and an icon.             *)
(***************************************************************************)
Apps ==
  { [id |-> "org.gnome.Calculator.desktop", name |-> "Calculator",
     icon |-> <<"accessories-calculator">>],
    [id |-> "unnamed.desktop", name |-> "", icon |-> <<"application-x-executable">>],
    [id |-> "org.gnome.Terminal.desktop", name |-> "Terminal", icon |-> <<>>] }

Windows ==
  { [id |-> "0x1", title |-> "Inbox"],
    [id |-> "0x2", title |-> "Inbox"],
    [id |-> "0x3", title |-> ""] }

RecentInfos ==
  { [uri |-> "file:///home/user/a.txt", display_name |-> "a.txt", gicon |-> "text-x-generic"],
    [uri |-> "file:///home/user/b.png", display_name |-> "b.png", gicon |-> "image-x-generic"],
    [uri |-> "file:///home/user/.c", display_name |-> "", gicon |-> ""] }

\* Shell.AppSystem.lookup_app(appName): the application of that desktop id, or null
lookup_app(appName) ==
  IF \E a \in Apps : a.id = appName
  THEN <<CHOOSE a \in Apps : a.id = appName>>
  ELSE <<>>

\* the desktop ids the 'favorite-apps' setting may hold: one is not installed
FavoriteNames == { a.id : a \in Apps } \cup {"removed.desktop"}

(***************************************************************************)
(* Lines 163-212: Bookmarks.  The nine files, and for each whether its     *)
(* query for the display name and its query for the icon fail.             *)
(***************************************************************************)
get_home_dir == "/home/user"

DEFAULT_DIRECTORIES ==
  << "DIRECTORY_DESKTOP", "DIRECTORY_DOCUMENTS", "DIRECTORY_DOWNLOAD", "DIRECTORY_MUSIC",
     "DIRECTORY_PICTURES", "DIRECTORY_TEMPLATES", "DIRECTORY_PUBLIC_SHARE",
     "DIRECTORY_VIDEOS" >>

get_user_special_dir(directory) ==
  CASE directory = "DIRECTORY_DESKTOP"      -> "/home/user/Desktop"
    [] directory = "DIRECTORY_DOCUMENTS"    -> "/home/user/Documents"
    [] directory = "DIRECTORY_DOWNLOAD"     -> "/home/user/Downloads"
    [] directory = "DIRECTORY_MUSIC"        -> "/home/user/Music"
    [] directory = "DIRECTORY_PICTURES"     -> "/home/user/Pictures"
    [] directory = "DIRECTORY_TEMPLATES"    -> "/home/user/Templates"
    [] directory = "DIRECTORY_PUBLIC_SHARE" -> "/home/user/Public"
    [] directory = "DIRECTORY_VIDEOS"       -> "/home/user/Videos"

\* Gio.File.get_basename()
get_basename(file) ==
  CASE file = "/home/user"           -> "user"
    [] file = "/home/user/Desktop"   -> "Desktop"
    [] file = "/home/user/Documents" -> "Documents"
    [] file = "/home/user/Downloads" -> "Downloads"
    [] file = "/home/user/Music"     -> "Music"
    [] file = "/home/user/Pictures"  -> "Pictures"
    [] file = "/home/user/Templates" -> "Templates"
    [] file = "/home/user/Public"    -> "Public"
    [] file = "/home/user/Videos"    -> "Videos"

\* query_info('standard::display-name').get_display_name(), when the query succeeds
get_display_name(file) ==
  CASE file = "/home/user"           -> "Home"
    [] file = "/home/user/Desktop"   -> "Schreibtisch"
    [] file = "/home/user/Documents" -> "Dokumente"
    [] file = "/home/user/Downloads" -> "Heruntergeladen"
    [] file = "/home/user/Music"     -> "Musik"
    [] file = "/home/user/Pictures"  -> "Bilder"
    [] file = "/home/user/Templates" -> "Vorlagen"
    [] file = "/home/user/Public"    -> "Freigegeben"
    [] file = "/home/user/Videos"    -> "Filme"

\* query_info('standard::icon').get_icon().to_string(), when the query succeeds
get_icon(file) ==
  CASE file = "/home/user"           -> "user-home"
    [] file = "/home/user/Desktop"   -> "user-desktop"
    [] file = "/home/user/Documents" -> "folder-documents"
    [] file = "/home/user/Downloads" -> "folder-download"
    [] file = "/home/user/Music"     -> "folder-music"
    [] file = "/home/user/Pictures"  -> "folder-pictures"
    [] file = "/home/user/Templates" -> "folder-templates"
    [] file = "/home/user/Public"    -> "folder-publicshare"
    [] file = "/home/user/Videos"    -> "folder-videos"

\* the files Bookmarks.createItem pushes, in the order it pushes them
BookmarkFiles ==
  <<get_home_dir>> \o
  [i \in 1..Len(DEFAULT_DIRECTORIES) |-> get_user_special_dir(DEFAULT_DIRECTORIES[i])]

\* lines 164-193 with both queries in one try block: a faulty variant
pushFile_one_try(menu, file, nameFails, iconFails) ==
  LET name == IF file \in nameFails THEN get_basename(file) ELSE get_display_name(file)
      icon == IF file \in nameFails \cup iconFails THEN "missing-image" ELSE get_icon(file)
  IN  [menu EXCEPT !.items =
         Append(@, [name |-> name, icon |-> icon,
                    activate |-> [fn |-> "Bookmarks", file |-> file]])]

\* lines 164-193; nameFails, iconFails: the files whose query throws
pushFile(menu, file, nameFails, iconFails) ==
  LET name == IF file \in nameFails THEN get_basename(file) ELSE get_display_name(file)
      icon == IF file \in iconFails THEN "missing-image" ELSE get_icon(file)
  IN  [menu EXCEPT !.items =
         Append(@, [name |-> name, icon |-> icon,
                    activate |-> [fn |-> "Bookmarks", file |-> file]])]

RECURSIVE Bookmarks_loop(_, _, _, _)
\* lines 206-209
Bookmarks_loop(result, i, nameFails, iconFails) ==
  IF i > Len(DEFAULT_DIRECTORIES) THEN result
  ELSE LET path == get_user_special_dir(DEFAULT_DIRECTORIES[i])
       IN  Bookmarks_loop(pushFile(result, path, nameFails, iconFails), i + 1,
                          nameFails, iconFails)

Bookmarks_createItem(name, icon, nameFails, iconFails) ==
  LET result == [name |-> name, icon |-> icon, items |-> <<>>]
      home   == pushFile(result, get_home_dir, nameFails, iconFails)
  IN  Returned(Bookmarks_loop(home, 1, nameFails, iconFails))

(***************************************************************************)
(* Lines 223-240: RunningApps.  apps is what get_running() returns: each   *)
(* element an application and what its get_windows() returns.              *)
(***************************************************************************)
\* lines 230-236, with the items pushed before those of result: a faulty variant
RunningApps_forEach_unshift(result, windows, icon) ==
  [result EXCEPT !.items =
     [k \in 1..Len(windows) |->
        [name |-> windows[k].title, icon |-> icon,
         activate |-> [fn |-> "RunningApps", window |-> windows[k]]]] \o @]

\* lines 230-236 with one window variable shared by the closures, left at the last
\* window iterated: a faulty variant
RunningApps_forEach_shared(result, windows, icon) ==
  [result EXCEPT !.items = @ \o
     [k \in 1..Len(windows) |->
        [name |-> windows[k].title, icon |-> icon,
         activate |-> [fn |-> "RunningApps", window |-> windows[Len(windows)]]]]]

\* lines 230-236: one item per window, pushed in the order of windows
RunningApps_forEach(result, windows, icon) ==
  [result EXCEPT !.items = @ \o
     [k \in 1..Len(windows) |->
        [name |-> windows[k].title, icon |-> icon,
         activate |-> [fn |-> "RunningApps", window |-> windows[k]]]]]

RECURSIVE RunningApps_loop(_, _, _)
\* lines 227-237
RunningApps_loop(result, apps, i) ==
  IF i > Len(apps) THEN Returned(result)
  ELSE LET windows == apps[i].windows
           icon    == apps[i].app.icon
       IN  IF icon = <<>> THEN Thrown  \* null.to_string()
           ELSE RunningApps_loop(RunningApps_forEach(result, windows, icon[1]), apps, i + 1)

RunningApps_createItem(name, icon, apps) ==
  RunningApps_loop([name |-> name, icon |-> icon, items |-> <<>>], apps, 1)

(***************************************************************************)
(* Lines 251-274: RecentFiles.  items is what get_items() returns: each    *)
(* element a recent file and what its exists() returns.                    *)
(***************************************************************************)
RECURSIVE RecentFiles_forEach(_, _, _)
RecentFiles_forEach(result, recentFiles, i) ==
  IF i > Len(recentFiles) THEN Returned(result)
  ELSE LET recentFile == recentFiles[i]
       IN  IF recentFile.exists
           THEN RecentFiles_forEach(
                  [result EXCEPT !.items =
                     Append(@, [name |-> recentFile.info.display_name,
                                icon |-> recentFile.info.gicon,
                                activate |-> [fn |-> "RecentFiles",
                                              recentFile |-> recentFile.info]])],
                  recentFiles, i + 1)
           ELSE RecentFiles_forEach(result, recentFiles, i + 1)

\* lines 251-274 with one entry too many in the slice: a faulty variant
RecentFiles_createItem_off_by_one(name, icon, maxNum, items) ==
  LET recentFiles == slice(items, 0, maxNum + 1)
  IN  RecentFiles_forEach([name |-> name, icon |-> icon, items |-> <<>>], recentFiles, 1)

RecentFiles_createItem(name, icon, maxNum, items) ==
  LET recentFiles == slice(items, 0, maxNum)
  IN  RecentFiles_forEach([name |-> name, icon |-> icon, items |-> <<>>], recentFiles, 1)

(***************************************************************************)
(* Lines 285-300: FrequentlyUsed.  mostUsed is what get_most_used()        *)
(* returns: each element an application or null.                           *)
(***************************************************************************)
RECURSIVE FrequentlyUsed_forEach(_, _, _)
FrequentlyUsed_forEach(result, apps, i) ==
  IF i > Len(apps) THEN Returned(result)
  ELSE LET app == apps[i]
       IN  IF app # <<>>
           THEN IF app[1].icon = <<>> THEN Thrown  \* null.to_string()
                ELSE FrequentlyUsed_forEach(
                       [result EXCEPT !.items =
                          Append(@, [name |-> app[1].name, icon |-> app[1].icon[1],
                                     activate |-> [fn |-> "FrequentlyUsed", app |-> app[1]]])],
                       apps, i + 1)
           ELSE FrequentlyUsed_forEach(result, apps, i + 1)

FrequentlyUsed_createItem(name, icon, maxNum, mostUsed) ==
  LET apps == slice(mostUsed, 0, maxNum)
  IN  FrequentlyUsed_forEach([name |-> name, icon |-> icon, items |-> <<>>], apps, 1)

(***************************************************************************)
(* Lines 311-328: Favorites.  appNames is the 'favorite-apps' setting.     *)
(***************************************************************************)
RECURSIVE Favorites_forEach(_, _, _)
Favorites_forEach(result, appNames, i) ==
  IF i > Len(appNames) THEN Returned(result)
  ELSE LET app == lookup_app(appNames[i])
       IN  IF app # <<>>
           THEN IF app[1].icon = <<>> THEN Thrown  \* null.to_string()
                ELSE Favorites_forEach(
                       [result EXCEPT !.items =
                          Append(@, [name |-> app[1].name, icon |-> app[1].icon[1],
                                     activate |-> [fn |-> "Favorites", app |-> app[1]]])],
                       appNames, i + 1)
           ELSE Favorites_forEach(result, appNames, i + 1)

Favorites_createItem(name, icon, appNames) ==
  Favorites_forEach([name |-> name, icon |-> icon, items |-> <<>>], appNames, 1)

(***************************************************************************)
(* Lines 340-401: MainMenu.  The host's menu tree: a node is an ENTRY with *)
(* its application, a DIRECTORY with its name, icon and children, or a     *)
(* SEPARATOR, HEADER or ALIAS.                                             *)
(***************************************************************************)
Directories ==
  { [name |-> "Games", icon |-> "applications-games"],
    [name |-> "", icon |-> ""] }

SkippedTypes == {"SEPARATOR", "HEADER", "ALIAS"}

EntryNode(app) == [type |-> "ENTRY", app |-> app]
DirectoryNode(d, children) ==
  [type |-> "DIRECTORY", name |-> d.name, icon |-> d.icon, children |-> children]
SkippedNode(t) == [type |-> t]

\* the trees of one node
SingleNodes ==
  { EntryNode(a) : a \in Apps } \cup { SkippedNode(t) : t \in SkippedTypes }
    \cup { DirectoryNode(d, <<>>) : d \in Directories }

RECURSIVE Forests(_), Trees(_)
\* the sequences of trees of n nodes in total
Forests(n) ==
  IF n = 0 THEN { <<>> }
  ELSE UNION { { <<t>> \o f : t \in Trees(k), f \in Forests(n - k) } : k \in 1..n }
\* the trees of k nodes
Trees(k) ==
  IF k = 1 THEN SingleNodes
  ELSE { DirectoryNode(d, c) : d \in Directories, c \in Forests(k - 1) }

\* the root directories of the menu trees the host may hold
RootDirectories ==
  { [type |-> "DIRECTORY", name |-> "Applications", icon |-> "applications-other",
     children |-> c] : c \in UNION { Forests(n) : n \in 0..MaxNodes } }

\* lines 348-366 with the item given an items list as well: a faulty variant
MainMenu_entry_items(node) ==
  LET app  == node.app
      icon == IF app.icon # <<>> THEN app.icon[1] ELSE "missing-image"
  IN  [name |-> app.name, icon |-> icon, items |-> <<>>,
       activate |-> [fn |-> "MainMenu", app |-> app]]

\* lines 348-366 without the fallback of lines 350-353: a faulty variant
MainMenu_entry_no_fallback(node) ==
  LET app  == node.app
      icon == IF app.icon # <<>> THEN app.icon[1] ELSE ""
  IN  [name |-> app.name, icon |-> icon, activate |-> [fn |-> "MainMenu", app |-> app]]

\* lines 348-366: the item of an ENTRY node
MainMenu_entry(node) ==
  LET app  == node.app
      icon == IF app.icon # <<>> THEN app.icon[1] ELSE "missing-image"
  IN  [name |-> app.name, icon |-> icon, activate |-> [fn |-> "MainMenu", app |-> app]]

RECURSIVE pushMenuItems(_, _), pushMenuItems_while(_, _, _)

\* lines 371-381 with the children pushed to menu itself: a faulty variant
MainMenu_directory_flat(menu, node) ==
  LET item0 == [name |-> node.name, icon |-> node.icon, items |-> <<>>]
  IN  pushMenuItems([menu EXCEPT !.items = Append(@, item0)], node)

\* lines 371-381: the item of a DIRECTORY node, filled and then pushed to menu
MainMenu_directory(menu, node) ==
  LET item0 == [name |-> node.name, icon |-> node.icon, items |-> <<>>]
  IN  [menu EXCEPT !.items = Append(@, pushMenuItems(item0, node))]

\* lines 341-388
pushMenuItems(menu, dir) == pushMenuItems_while(menu, dir, 1)
\* lines 344-387: the loop, at the i-th child of dir
pushMenuItems_while(menu, dir, i) ==
  IF i > Len(dir.children) THEN menu  \* iter.next() is INVALID
  ELSE LET node == dir.children[i]
       IN  CASE node.type = "ENTRY" ->
                  pushMenuItems_while(
                    [menu EXCEPT !.items = Append(@, MainMenu_entry(node))], dir, i + 1)
             [] node.type = "DIRECTORY" ->
                  pushMenuItems_while(MainMenu_directory(menu, node), dir, i + 1)
             [] OTHER -> pushMenuItems_while(menu, dir, i + 1)

MainMenu_createItem(name, icon, root) ==
  Returned(pushMenuItems([name |-> name, icon |-> icon, items |-> <<>>], root))

(***************************************************************************)
(* The activate() closures.  The body of each is the sequence of host      *)
(* calls it makes, each inside (try) or outside its try block, and the     *)
(* text its catch block hands to utils.notification.                       *)
(***************************************************************************)
HostCall(api, try) == [api |-> api, try |-> try]

\* lines 72-74
Hotkey_activate ==
  [ calls |-> << HostCall("InputManipulator.activateAccelerator", FALSE) >>,
    catch |-> "" ]
\* lines 91-100 with the launch context created before the try block: a faulty variant
Command_activate_ctx_outside ==
  [ calls |-> << HostCall("global.create_app_launch_context", FALSE),
                 HostCall("Gio.AppInfo.create_from_commandline", TRUE),
                 HostCall("item.launch", TRUE) >>,
    catch |-> "Failed to execute command: " ]
\* lines 91-100
Command_activate ==
  [ calls |-> << HostCall("global.create_app_launch_context", TRUE),
                 HostCall("Gio.AppInfo.create_from_commandline", TRUE),
                 HostCall("item.launch", TRUE) >>,
    catch |-> "Failed to execute command: " ]
\* lines 117-123
Url_activate ==
  [ calls |-> << HostCall("Gio.AppInfo.launch_default_for_uri", TRUE) >>,
    catch |-> "Failed to open URL: " ]
\* lines 140-146
File_activate ==
  [ calls |-> << HostCall("Gio.AppInfo.launch_default_for_uri", TRUE) >>,
    catch |-> "Failed to open file: " ]
\* lines 183-191
Bookmarks_activate ==
  [ calls |-> << HostCall("global.create_app_launch_context", FALSE),
                 HostCall("file.get_uri", TRUE),
                 HostCall("Gio.AppInfo.launch_default_for_uri", TRUE) >>,
    catch |-> "Failed to open \"%s\": %s" ]
\* line 234
RunningApps_activate ==
  [ calls |-> << HostCall("window.activate", FALSE) >>, catch |-> "" ]
\* lines 260-268
RecentFiles_activate ==
  [ calls |-> << HostCall("global.create_app_launch_context", FALSE),
                 HostCall("recentFile.get_uri", TRUE),
                 HostCall("Gio.AppInfo.launch_default_for_uri", TRUE) >>,
    catch |-> "Failed to open URI: " ]
\* line 294
FrequentlyUsed_activate ==
  [ calls |-> << HostCall("app.open_new_window", FALSE) >>, catch |-> "" ]
\* line 322
Favorites_activate ==
  [ calls |-> << HostCall("app.open_new_window", FALSE) >>, catch |-> "" ]
\* lines 357-365
MainMenu_activate ==
  [ calls |-> << HostCall("global.create_app_launch_context", FALSE),
                 HostCall("app.launch", TRUE) >>,
    catch |-> "Failed to launch app: " ]

\* the body of the closure of a leaf
activate(closure) ==
  CASE closure.fn = "Hotkey"         -> Hotkey_activate
    [] closure.fn = "Command"        -> Command_activate
    [] closure.fn = "Url"            -> Url_activate
    [] closure.fn = "File"           -> File_activate
    [] closure.fn = "Bookmarks"      -> Bookmarks_activate
    [] closure.fn = "RunningApps"    -> RunningApps_activate
    [] closure.fn = "RecentFiles"    -> RecentFiles_activate
    [] closure.fn = "FrequentlyUsed" -> FrequentlyUsed_activate
    [] closure.fn = "Favorites"      -> Favorites_activate
    [] closure.fn = "MainMenu"       -> MainMenu_activate

(***************************************************************************)
(* One run of a body.  failAt = 0: no host call fails; failAt = k: the     *)
(* k-th host call throws.  The calls run in order; a throw inside the try  *)
(* block runs the catch block, a throw outside it leaves activate().       *)
(* run_retry is a faulty variant: the failed call is made a second time.   *)
(***************************************************************************)
\* the object the closure captured, on which its host calls act: the hotkey, command,
\* url or file argument, the file (l.187), window (l.234), recent file (l.264) or
\* application (l.294, 322, 361) of the iteration that built the leaf
captured(closure) ==
  CASE closure.fn = "Hotkey"         -> [hotkey |-> closure.hotkey]
    [] closure.fn = "Command"        -> [command |-> closure.command]
    [] closure.fn = "Url"            -> [url |-> closure.url]
    [] closure.fn = "File"           -> [file |-> closure.file]
    [] closure.fn = "Bookmarks"      -> [file |-> closure.file]
    [] closure.fn = "RunningApps"    -> [window |-> closure.window]
    [] closure.fn = "RecentFiles"    -> [recentFile |-> closure.recentFile]
    [] closure.fn = "FrequentlyUsed" -> [app |-> closure.app]
    [] closure.fn = "Favorites"      -> [app |-> closure.app]
    [] closure.fn = "MainMenu"       -> [app |-> closure.app]

run_retry(closure, body, failAt) ==
  LET made   == IF failAt = 0 THEN body.calls
                ELSE SubSeq(body.calls, 1, failAt) \o << body.calls[failAt] >>
      caught == failAt > 0 /\ body.calls[failAt].try
  IN  [ closure       |-> closure,
        on            |-> captured(closure),
        calls         |-> [k \in 1..Len(made) |-> made[k].api],
        failed        |-> failAt,
        notifications |-> IF caught THEN << body.catch >> ELSE << >>,
        propagated    |-> failAt > 0 /\ ~caught ]

run(closure, body, failAt) ==
  LET made   == IF failAt = 0 THEN body.calls ELSE SubSeq(body.calls, 1, failAt)
      caught == failAt > 0 /\ body.calls[failAt].try
  IN  [ closure       |-> closure,
        on            |-> captured(closure),
        calls         |-> [k \in 1..Len(made) |-> made[k].api],
        failed        |-> failAt,
        notifications |-> IF caught THEN << body.catch >> ELSE << >>,
        propagated    |-> failAt > 0 /\ ~caught ]

(***************************************************************************)
(* The records of a tree of items.                                         *)
(***************************************************************************)
IsLeafRecord(r)      == DOMAIN r = {"name", "icon", "activate"}
IsContainerRecord(r) == DOMAIN r = {"name", "icon", "items"}

RECURSIVE Paths(_)
\* the positions of the records of r: <<>> is r, <<i>> \o p is position p of r.items[i]
Paths(r) ==
  { <<>> } \cup
  ( IF "items" \in DOMAIN r
    THEN UNION { { <<i>> \o p : p \in Paths(r.items[i]) } : i \in 1..Len(r.items) }
    ELSE { } )

RECURSIVE At(_, _)
At(r, p) == IF p = <<>> THEN r ELSE At(r.items[Head(p)], Tail(p))

LeafPaths(r) == { p \in Paths(r) : "activate" \in DOMAIN At(r, p) }

(***************************************************************************)
(* The host states createItem reads.                                       *)
(***************************************************************************)
\* the sets of files whose display-name query and whose icon query fail
QueryFailures ==
  { f \in [name : SUBSET { BookmarkFiles[i] : i \in 1..Len(BookmarkFiles) },
           icon : SUBSET { BookmarkFiles[i] : i \in 1..Len(BookmarkFiles) }] :
      Cardinality(f.name) + Cardinality(f.icon) <= MaxFails }

\* get_running(): distinct applications, each with its own windows
RunningLists ==
  UNION { UNION { { [i \in 1..Len(as) |->
                      [app     |-> as[i],
                       windows |-> SubSeq(ws, (IF i = 1 THEN 0 ELSE cut[i - 1]) + 1, cut[i])]] :
                    cut \in { c \in [1..Len(as) -> 0..Len(ws)] :
                                /\ \A i \in 1..Len(as) - 1 : c[i] <= c[i + 1]
                                /\ Len(as) > 0 => c[Len(as)] = Len(ws) } } :
                  ws \in IF Len(as) = 0 THEN { <<>> } ELSE InjSeqsUpTo(Windows, MaxLen) } :
          as \in InjSeqsUpTo(Apps, MaxLen) }

\* Gtk.RecentManager.get_items(): distinct files, each existing or not
RecentLists ==
  UNION { { [i \in 1..Len(fs) |-> [info |-> fs[i], exists |-> ex[i]]] :
            ex \in [1..Len(fs) -> BOOLEAN] } : fs \in InjSeqsUpTo(RecentInfos, MaxLen) }

\* Shell.AppUsage.get_most_used(): applications and nulls
MostUsedLists == SeqsUpTo({ <<a>> : a \in Apps } \cup { <<>> }, MaxLen)

\* the 'favorite-apps' setting
FavoriteLists == SeqsUpTo(FavoriteNames, MaxLen)

(***************************************************************************)
(* The state machine.                                                      *)
(***************************************************************************)
Init ==
  /\ loaded = FALSE
  /\ Shell = "undefined"
  /\ InputManipulator = "undefined"
  /\ loadRaised = FALSE
  /\ call = NoCall
  /\ threw = FALSE
  /\ item = NoItem
  /\ act = NoAct

\* lines 11-403: the module is imported, by the extension or by the preferences
Load ==
  /\ ~loaded
  /\ \E shellOk, imOk \in BOOLEAN :
       LET r == OptionalImport(shellOk, imOk)
       IN  /\ Shell' = r.Shell
           /\ InputManipulator' = r.InputManipulator
           /\ loadRaised' = r.raised
  /\ loaded' = TRUE
  /\ UNCHANGED <<call, threw, item, act>>

\* createItem is called on the client side only (lines 16-21).  The factories read
\* nothing of the registry's state, so one call per behaviour reaches every record.
ClientSide ==
  /\ loaded
  /\ Shell = "available"
  /\ InputManipulator = "available"

CanCreate == ClientSide /\ call = NoCall

\* the outcome r of the createItem call c becomes the state
Created(c, r) ==
  /\ call' = c
  /\ threw' = ~r.ok
  /\ item' = IF r.ok THEN r.value ELSE NoItem
  /\ act' = NoAct
  /\ UNCHANGED <<loaded, Shell, InputManipulator, loadRaised>>

CreateHotkey ==
  /\ CanCreate
  /\ \E name \in UserNames, icon \in UserIcons, hotkey \in Hotkeys :
       Created([type |-> "Hotkey", name |-> name, icon |-> icon, hotkey |-> hotkey],
               Hotkey_createItem(name, icon, hotkey))

CreateCommand ==
  /\ CanCreate
  /\ \E name \in UserNames, icon \in UserIcons, command \in Commands :
       Created([type |-> "Command", name |-> name, icon |-> icon, command |-> command],
               Command_createItem(name, icon, command))

CreateUrl ==
  /\ CanCreate
  /\ \E name \in UserNames, icon \in UserIcons, url \in Urls :
       Created([type |-> "Url", name |-> name, icon |-> icon, url |-> url],
               Url_createItem(name, icon, url))

CreateFile ==
  /\ CanCreate
  /\ \E name \in UserNames, icon \in UserIcons, file \in FilePaths :
       Created([type |-> "File", name |-> name, icon |-> icon, file |-> file],
               File_createItem(name, icon, file))

CreateBookmarks ==
  /\ CanCreate
  /\ \E name \in UserNames, icon \in UserIcons, f \in QueryFailures :
       Created([type |-> "Bookmarks", name |-> name, icon |-> icon,
                nameFails |-> f.name, iconFails |-> f.icon],
               Bookmarks_createItem(name, icon, f.name, f.icon))

CreateRunningApps ==
  /\ CanCreate
  /\ \E name \in UserNames, icon \in UserIcons, apps \in RunningLists :
       Created([type |-> "RunningApps", name |-> name, icon |-> icon, apps |-> apps],
               RunningApps_createItem(name, icon, apps))

CreateRecentFiles ==
  /\ CanCreate
  /\ \E name \in UserNames, icon \in UserIcons, maxNum \in 0..MaxNum, items \in RecentLists :
       Created([type |-> "RecentFiles", name |-> name, icon |-> icon,
                maxNum |-> maxNum, items |-> items],
               RecentFiles_createItem(name, icon, maxNum, items))

CreateFrequentlyUsed ==
  /\ CanCreate
  /\ \E name \in UserNames, icon \in UserIcons, maxNum \in 0..MaxNum,
        mostUsed \in MostUsedLists :
       Created([type |-> "FrequentlyUsed", name |-> name, icon |-> icon,
                maxNum |-> maxNum, mostUsed |-> mostUsed],
               FrequentlyUsed_createItem(name, icon, maxNum, mostUsed))

CreateFavorites ==
  /\ CanCreate
  /\ \E name \in UserNames, icon \in UserIcons, appNames \in FavoriteLists :
       Created([type |-> "Favorites", name |-> name, icon |-> icon, appNames |-> appNames],
               Favorites_createItem(name, icon, appNames))

CreateMainMenu ==
  /\ CanCreate
  /\ \E name \in UserNames, icon \in UserIcons, root \in RootDirectories :
       Created([type |-> "MainMenu", name |-> name, icon |-> icon, root |-> root],
               MainMenu_createItem(name, icon, root))

\* the user selects a leaf of the menu: its activate() runs, the host failing or not
Activate ==
  /\ ClientSide
  /\ \E p \in LeafPaths(item) :
       LET closure == At(item, p).activate
           body    == activate(closure)
       IN  \E failAt \in 0..Len(body.calls) :
             act' = [path |-> p] @@ run(closure, body, failAt)
  /\ UNCHANGED <<loaded, Shell, InputManipulator, loadRaised, call, threw, item>>

Next ==
  \/ Load
  \/ CreateHotkey
  \/ CreateCommand
  \/ CreateUrl
  \/ CreateFile
  \/ CreateBookmarks
  \/ CreateRunningApps
  \/ CreateRecentFiles
  \/ CreateFrequentlyUsed
  \/ CreateFavorites
  \/ CreateMainMenu
  \/ Activate

Spec == Init /\ [][Next]_vars

(***************************************************************************)
(* The properties.                                                         *)
(***************************************************************************)
\* createItem has returned a record
HasItem == call # NoCall /\ ~threw

\* a leaf's activate() has run
HasAct == act # NoAct

\* C1: every record createItem returns, and every record nested in it at any depth,
\* is exactly one of a leaf (name, icon and an activate function, no items) and a
\* container (name, icon and an items list of such records, no activate).
C1_LeafOrContainer ==
  HasItem =>
    \A p \in Paths(item) :
      LET r == At(item, p)
      IN  \/ /\ IsLeafRecord(r)
             /\ "items" \notin DOMAIN r
             /\ r.activate.fn \in TypeNames
          \/ /\ IsContainerRecord(r)
             /\ "activate" \notin DOMAIN r
             /\ DOMAIN r.items = 1..Len(r.items)

\* C1 happens: a returned container holds a container that holds a leaf
C1_Witness ==
  /\ HasItem
  /\ \E p \in Paths(item) :
       /\ Len(p) = 2
       /\ IsLeafRecord(At(item, p))
       /\ IsContainerRecord(At(item, SubSeq(p, 1, 1)))

\* C2 as stated: whenever a host call of activate() fails, the failure is caught,
\* a notification is emitted and nothing propagates to the caller.
C2_EveryFailureCaught ==
  (HasAct /\ act.failed > 0) => (Len(act.notifications) > 0 /\ ~act.propagated)

\* the leaves whose every host call is inside the try block
FullyGuarded == {"Command", "Url", "File"}
\* the leaves that create the launch context before their try block
PartlyGuarded == {"Bookmarks", "RecentFiles", "MainMenu"}
\* the leaves without a try block
Unguarded == {"Hotkey", "RunningApps", "FrequentlyUsed", "Favorites"}

\* C2 as amended: a failed host call is caught, with exactly one notification and no
\* error to the caller, in the leaves of Command, Url and File, and in the leaves of
\* Bookmarks, RecentFiles and MainMenu unless the failed call is
\* create_app_launch_context; that failure, and every failure in the leaves of
\* Hotkey, RunningApps, FrequentlyUsed and Favorites, propagates to the caller
\* without a notification.
C2_GuardedFailureCaught ==
  (HasAct /\ act.failed > 0) =>
    LET fn     == act.closure.fn
        failed == act.calls[Len(act.calls)]
        inTry  == \/ fn \in FullyGuarded
                  \/ fn \in PartlyGuarded /\ failed # "global.create_app_launch_context"
    IN  /\ fn \in FullyGuarded \cup PartlyGuarded \cup Unguarded
        /\ inTry => (Len(act.notifications) = 1 /\ ~act.propagated)
        /\ ~inTry => (Len(act.notifications) = 0 /\ act.propagated)

\* C2 happens: the launch of a nested MainMenu leaf failed and was notified
C2_Witness ==
  /\ HasAct
  /\ act.failed > 0
  /\ act.closure.fn = "MainMenu"
  /\ Len(act.path) = 2
  /\ act.notifications = << "Failed to launch app: " >>
  /\ ~act.propagated

\* C3 as stated: one activate() makes exactly one host call, failing or not.
C3_ExactlyOneHostCall ==
  HasAct => Len(act.calls) = 1

\* the number of host calls of an activate() in which none fails
HostCallCount(fn) ==
  CASE fn \in {"Hotkey", "Url", "File", "RunningApps", "FrequentlyUsed", "Favorites"} -> 1
    [] fn = "MainMenu" -> 2
    [] fn \in {"Command", "Bookmarks", "RecentFiles"} -> 3

\* C3 as amended: one activate() makes one host call in the leaves of Hotkey, Url,
\* File, RunningApps, FrequentlyUsed and Favorites, two in those of MainMenu and three
\* in those of Command, Bookmarks and RecentFiles, each call once; when a call fails
\* it is the last host call of that activation: it is not retried and no host call
\* follows it.
C3_NoCallAfterFailure ==
  HasAct =>
    LET n == HostCallCount(act.closure.fn)
    IN  /\ act.failed = 0 => Len(act.calls) = n
        /\ act.failed > 0 => (Len(act.calls) = act.failed /\ act.failed <= n)
        /\ \A i, j \in 1..Len(act.calls) : act.calls[i] = act.calls[j] => i = j

\* C3 happens: the second of the three host calls of a Command leaf failed
C3_Witness ==
  /\ HasAct
  /\ act.closure.fn = "Command"
  /\ act.failed = 2
  /\ act.calls = << "global.create_app_launch_context",
                    "Gio.AppInfo.create_from_commandline" >>

\* every record of the returned tree has a non-empty name and a non-empty icon
AllNonEmpty ==
  \A p \in Paths(item) : At(item, p).name # "" /\ At(item, p).icon # ""

\* C4 as stated: every record createItem produces, at every depth, has a non-empty
\* name and a non-empty icon, for every argument and every value of the host.
C4_AlwaysNonEmpty ==
  HasItem => AllNonEmpty

RECURSIVE TreeNonEmpty(_)
\* no application name, directory name or directory icon below dir is empty
TreeNonEmpty(dir) ==
  \A i \in 1..Len(dir.children) :
    LET node == dir.children[i]
    IN  CASE node.type = "ENTRY" -> node.app.name # "" /\ node.app.icon # << "" >>
          [] node.type = "DIRECTORY" ->
               node.name # "" /\ node.icon # "" /\ TreeNonEmpty(node)
          [] OTHER -> TRUE

\* no string the host holds for the objects of the createItem call c is empty
HostNonEmpty(c) ==
  CASE c.type = "RunningApps" ->
         \A i \in 1..Len(c.apps) :
           /\ c.apps[i].app.icon # << "" >>
           /\ \A k \in 1..Len(c.apps[i].windows) : c.apps[i].windows[k].title # ""
    [] c.type = "RecentFiles" ->
         \A i \in 1..Len(c.items) :
           c.items[i].info.display_name # "" /\ c.items[i].info.gicon # ""
    [] c.type = "FrequentlyUsed" ->
         \A i \in 1..Len(c.mostUsed) :
           c.mostUsed[i] # <<>> =>
             (c.mostUsed[i][1].name # "" /\ c.mostUsed[i][1].icon # << "" >>)
    [] c.type = "Favorites" ->
         \A i \in 1..Len(c.appNames) :
           LET app == lookup_app(c.appNames[i])
           IN  app # <<>> => (app[1].name # "" /\ app[1].icon # << "" >>)
    [] c.type = "MainMenu" -> TreeNonEmpty(c.root)
    [] c.type = "Bookmarks" ->
         \A i \in 1..Len(BookmarkFiles) :
           /\ get_basename(BookmarkFiles[i]) # ""
           /\ get_display_name(BookmarkFiles[i]) # ""
           /\ get_icon(BookmarkFiles[i]) # ""
    [] OTHER -> TRUE

\* C4 as amended: the name and icon of the returned record are the name and icon
\* arguments unchanged, empty when the argument is empty; every record createItem
\* produces, at every depth, has a non-empty name and a non-empty icon when the name
\* and icon arguments are non-empty and no window title, application name, display
\* name, directory name or icon string of the host is empty.
C4_NonEmptyFromNonEmpty ==
  HasItem =>
    /\ item.name = call.name
    /\ item.icon = call.icon
    /\ (call.name # "" /\ call.icon # "" /\ HostNonEmpty(call)) => AllNonEmpty

\* C4 happens: a menu tree of non-empty strings with a directory and, in it, an
\* application without icon
C4_Witness ==
  /\ HasItem
  /\ call.type = "MainMenu"
  /\ call.name # "" /\ call.icon # "" /\ HostNonEmpty(call)
  /\ \E p \in LeafPaths(item) :
       Len(p) = 2 /\ At(item, p).activate.app.icon = <<>>

\* the objects the leaves of an items list captured, in the order of the list
Captured(items, field) == [i \in 1..Len(items) |-> items[i].activate[field]]

\* the application of each non-null element of a list of options, in order
RECURSIVE Present(_)
Present(options) ==
  IF options = <<>> THEN <<>> ELSE Head(options) \o Present(Tail(options))

RECURSIVE SameOrder(_, _)
\* the items of menu are, in order, the items of the entries and directories among
\* the children of dir, and so at every level below
SameOrder(menu, dir) ==
  LET kept == SelectSeq(dir.children, LAMBDA n : n.type \in {"ENTRY", "DIRECTORY"})
  IN  /\ Len(menu.items) = Len(kept)
      /\ \A i \in 1..Len(kept) :
           IF kept[i].type = "ENTRY"
           THEN /\ IsLeafRecord(menu.items[i])
                /\ menu.items[i].activate.app = kept[i].app
           ELSE /\ IsContainerRecord(menu.items[i])
                /\ menu.items[i].name = kept[i].name
                /\ SameOrder(menu.items[i], kept[i])

\* C5: the items RunningApps, RecentFiles, FrequentlyUsed, Favorites and each level of
\* MainMenu produce are in the order in which the host returned their entries; the
\* windows of the i-th running application come before those of a later one, and those
\* of one application in the order of get_windows(); a skipped entry reorders nothing.
C5_HostOrderKept ==
  HasItem =>
    CASE call.type = "RunningApps" ->
           Captured(item.items, "window") =
             Concat([i \in 1..Len(call.apps) |-> call.apps[i].windows])
      [] call.type = "RecentFiles" ->
           LET L == SubSeq(call.items, 1, Min(call.maxNum, Len(call.items)))
           IN  Captured(item.items, "recentFile") =
                 [i \in 1..Len(SelectSeq(L, LAMBDA e : e.exists)) |->
                    SelectSeq(L, LAMBDA e : e.exists)[i].info]
      [] call.type = "FrequentlyUsed" ->
           Captured(item.items, "app") =
             Present(SubSeq(call.mostUsed, 1, Min(call.maxNum, Len(call.mostUsed))))
      [] call.type = "Favorites" ->
           Captured(item.items, "app") =
             Present([i \in 1..Len(call.appNames) |-> lookup_app(call.appNames[i])])
      [] call.type = "MainMenu" -> SameOrder(item, call.root)
      [] OTHER -> TRUE

\* C5 happens: two running applications, the first with two windows, the second
\* with one
C5_Witness ==
  /\ HasItem
  /\ call.type = "RunningApps"
  /\ Len(call.apps) = 2
  /\ Len(call.apps[1].windows) = 2
  /\ Len(call.apps[2].windows) = 1
  /\ Len(item.items) = 3

\* C6: every entry of ItemTypes has the six properties; its settingsType is a value
\* of SettingsTypes; its settingsList is 'action-types-list' exactly when its
\* createItem returns a leaf and 'submenu-types-list' exactly when it returns a
\* container; its createItem takes a parameter beyond (name, icon) exactly when its
\* settingsType is not SettingsTypes.NONE.
C6_DescriptorsWellFormed ==
  /\ \A t \in TypeNames :
       /\ DOMAIN ItemTypes[t] = Properties
       /\ ItemTypes[t].settingsType \in { SettingsTypes[k] : k \in DOMAIN SettingsTypes }
       /\ ItemTypes[t].settingsList \in {"action-types-list", "submenu-types-list"}
       /\ SubSeq(ItemTypes[t].createItem, 1, 2) = << "name", "icon" >>
       /\ Len(ItemTypes[t].createItem) > 2 <=> ItemTypes[t].settingsType # SettingsTypes.NONE
  /\ HasItem =>
       /\ call.type \in TypeNames
       /\ ItemTypes[call.type].settingsList = "action-types-list" <=> IsLeafRecord(item)
       /\ ItemTypes[call.type].settingsList = "submenu-types-list" <=> IsContainerRecord(item)

\* C6 happens: Favorites.createItem has returned its container
C6_Witness ==
  /\ HasItem
  /\ call.type = "Favorites"
  /\ IsContainerRecord(item)

\* C7: loading the registry never raises, whichever of the import of Shell and the
\* construction of InputManipulator fails; the descriptors stay readable; and after
\* loading Shell and InputManipulator are both available or both undefined.
C7_BothOrNeither ==
  loaded =>
    /\ ~loadRaised
    /\ \A t \in TypeNames :
         {"name", "icon", "description", "settingsType", "settingsList"}
           \subseteq DOMAIN ItemTypes[t]
    /\ (Shell = "available") <=> (InputManipulator = "available")

RECURSIVE Mirror(_)
\* the items mirroring a sequence of nodes of the host's menu tree
Mirror(nodes) ==
  IF nodes = <<>> THEN <<>>
  ELSE LET node == Head(nodes)
       IN  CASE node.type = "ENTRY" ->
                  << [name |-> node.app.name, app |-> node.app.id] >> \o Mirror(Tail(nodes))
             [] node.type = "DIRECTORY" ->
                  << [name |-> node.name, icon |-> node.icon,
                      items |-> Mirror(node.children)] >> \o Mirror(Tail(nodes))
             [] node.type \in SkippedTypes -> Mirror(Tail(nodes))

RECURSIVE Abstract(_)
\* a sequence of items, each leaf reduced to its name and its application
Abstract(items) ==
  [i \in 1..Len(items) |->
     IF "activate" \in DOMAIN items[i]
     THEN [name |-> items[i].name, app |-> items[i].activate.app.id]
     ELSE [name |-> items[i].name, icon |-> items[i].icon,
           items |-> Abstract(items[i].items)]]

\* C8: MainMenu.createItem returns a container that mirrors the host's menu tree: an
\* ENTRY yields one leaf at its place among its siblings, a DIRECTORY one container
\* of the result for its children (an empty items list for an empty directory), any
\* other node nothing, and no child lands in another container than its directory's.
C8_MainMenuMirrorsTree ==
  (call.type = "MainMenu") =>
    /\ ~threw
    /\ IsContainerRecord(item)
    /\ item.name = call.name /\ item.icon = call.icon
    /\ Abstract(item.items) = Mirror(call.root.children)

\* C8 happens: a skipped node followed by a directory holding one entry
C8_Witness ==
  /\ HasItem
  /\ call.type = "MainMenu"
  /\ Len(call.root.children) = 2
  /\ call.root.children[1].type \in SkippedTypes
  /\ call.root.children[2].type = "DIRECTORY"
  /\ Len(call.root.children[2].children) = 1
  /\ call.root.children[2].children[1].type = "ENTRY"
  /\ Len(item.items) = 1
  /\ IsContainerRecord(item.items[1])
  /\ Len(item.items[1].items) = 1
  /\ IsLeafRecord(item.items[1].items[1])

\* the list RecentFiles and FrequentlyUsed read from the host
HostList == IF call.type = "RecentFiles" THEN call.items ELSE call.mostUsed

\* C9 as stated: RecentFiles and FrequentlyUsed produce one leaf for each of the first
\* maxNum entries of the host's list: min(maxNum, length) items.
C9_OneLeafPerSliceEntry ==
  (HasItem /\ call.type \in {"RecentFiles", "FrequentlyUsed"}) =>
    Len(item.items) = Min(call.maxNum, Len(HostList))

\* the entries among the first maxNum of the host's list that yield a leaf
Yielding ==
  { i \in 1..Min(call.maxNum, Len(HostList)) :
      IF call.type = "RecentFiles" THEN HostList[i].exists ELSE HostList[i] # <<>> }

\* C9 as amended: RecentFiles and FrequentlyUsed take the first maxNum entries of the
\* host's list and produce one leaf for each entry of that slice that exists
\* (RecentFiles) or is not null (FrequentlyUsed) and none for the others, so the items
\* list has at most min(maxNum, length) elements and never more than maxNum;
\* FrequentlyUsed returns nothing when an application of the slice has no icon.
C9_OneLeafPerYieldingEntry ==
  (call.type \in {"RecentFiles", "FrequentlyUsed"}) =>
    /\ threw <=> /\ call.type = "FrequentlyUsed"
                 /\ \E i \in Yielding : HostList[i][1].icon = <<>>
    /\ ~threw =>
         /\ Len(item.items) = Cardinality(Yielding)
         /\ Len(item.items) <= Min(call.maxNum, Len(HostList))
         /\ Len(item.items) <= call.maxNum
         /\ \A i \in 1..Len(item.items) : IsLeafRecord(item.items[i])

\* C9 happens: three recent files, maxNum is two, the first file is gone
C9_Witness ==
  /\ HasItem
  /\ call.type = "RecentFiles"
  /\ Len(call.items) = 3
  /\ call.maxNum = 2
  /\ ~call.items[1].exists /\ call.items[2].exists /\ call.items[3].exists
  /\ Len(item.items) = 1

\* C10: Bookmarks.createItem always returns a container of nine leaves: the home
\* directory, then Desktop, Documents, Download, Music, Pictures, Templates, Public
\* Share and Videos.  A failed display-name query makes the name of that leaf the
\* basename of its file, a failed icon query makes its icon 'missing-image'; neither
\* fallback touches the other field, and no failure drops or changes another leaf.
C10_NineBookmarks ==
  (call.type = "Bookmarks") =>
    /\ ~threw
    /\ IsContainerRecord(item)
    /\ Len(item.items) = 9
    /\ Captured(item.items, "file") =
         << "/home/user", "/home/user/Desktop", "/home/user/Documents",
            "/home/user/Downloads", "/home/user/Music", "/home/user/Pictures",
            "/home/user/Templates", "/home/user/Public", "/home/user/Videos" >>
    /\ \A i \in 1..Len(item.items) :
         LET leaf == item.items[i]
             file == leaf.activate.file
         IN  /\ IsLeafRecord(leaf)
             /\ leaf.name = IF file \in call.nameFails
                            THEN get_basename(file) ELSE get_display_name(file)
             /\ leaf.icon = IF file \in call.iconFails
                            THEN "missing-image" ELSE get_icon(file)

\* C10 happens: the display-name query of Desktop and the icon query of Music failed
C10_Witness ==
  /\ HasItem
  /\ call.type = "Bookmarks"
  /\ call.nameFails = { "/home/user/Desktop" }
  /\ call.iconFails = { "/home/user/Music" }
  /\ item.items[2].name = "Desktop" /\ item.items[2].icon = "user-desktop"
  /\ item.items[5].name = "Musik" /\ item.items[5].icon = "missing-image"

RECURSIVE SourceNode(_, _)
\* the node of the host's menu tree that the item at position p below dir is built
\* from: the entries and directories among the children, counted in order
SourceNode(dir, p) ==
  LET kept == SelectSeq(dir.children, LAMBDA n : n.type \in {"ENTRY", "DIRECTORY"})
      node == kept[Head(p)]
  IN  IF Tail(p) = <<>> THEN node ELSE SourceNode(node, Tail(p))

\* the host objects the leaves of a one-level submenu are built from, in order
Sources ==
  CASE call.type = "Bookmarks" ->
         [i \in 1..Len(BookmarkFiles) |-> [file |-> BookmarkFiles[i]]]
    [] call.type = "RunningApps" ->
         LET ws == Concat([i \in 1..Len(call.apps) |-> call.apps[i].windows])
         IN  [i \in 1..Len(ws) |-> [window |-> ws[i]]]
    [] call.type = "RecentFiles" ->
         LET L == SelectSeq(SubSeq(call.items, 1, Min(call.maxNum, Len(call.items))),
                            LAMBDA e : e.exists)
         IN  [i \in 1..Len(L) |-> [recentFile |-> L[i].info]]
    [] call.type = "FrequentlyUsed" ->
         LET L == Present(SubSeq(call.mostUsed, 1, Min(call.maxNum, Len(call.mostUsed))))
         IN  [i \in 1..Len(L) |-> [app |-> L[i]]]
    [] call.type = "Favorites" ->
         LET L == Present([i \in 1..Len(call.appNames) |-> lookup_app(call.appNames[i])])
         IN  [i \in 1..Len(L) |-> [app |-> L[i]]]

\* the submenus whose leaves are built from host objects
Submenus ==
  {"Bookmarks", "RunningApps", "RecentFiles", "FrequentlyUsed", "Favorites", "MainMenu"}

\* C11: each leaf of a submenu is bound to the host object it was built from:
\* activating the k-th leaf acts on the k-th source object (that window for
\* RunningApps, that application for FrequentlyUsed, Favorites and MainMenu, that file
\* for Bookmarks and RecentFiles), never on the object of another leaf, in whatever
\* order and however many times the leaves are activated.
C11_LeafBoundToItsSource ==
  (HasAct /\ call.type \in Submenus) =>
    IF call.type = "MainMenu"
    THEN /\ SourceNode(call.root, act.path).type = "ENTRY"
         /\ act.on = [app |-> SourceNode(call.root, act.path).app]
    ELSE /\ Len(act.path) = 1
         /\ act.path[1] \in 1..Len(Sources)
         /\ act.on = Sources[act.path[1]]

\* C11 happens: of three windows the first was activated, which is not the last
C11_Witness ==
  /\ HasAct
  /\ call.type = "RunningApps"
  /\ Len(item.items) = 3
  /\ act.path = << 1 >>
  /\ act.on = [window |-> call.apps[1].windows[1]]
  /\ act.on # [window |-> item.items[3].activate.window]

====
